---- MODULE Spec2Model ----
(***************************************************************************)
(* A model of OpenCXR's image standardization:                             *)
(*   src/opencxr/utils/normalization.py       (class Normalizer)           *)
(*   src/algorithms/cxrstandardization/__init__.py                         *)
(*                                   (class CXRStandardizationAlgorithm)   *)
(*                                                                         *)
(* Three specifications share the module:                                  *)
(*   Spec      one call of CXRStandardizationAlgorithm.run, with the call  *)
(*             of Normalizer.do_full_normalization inside it;              *)
(*   SpecSplit one call of Normalizer.split_energy_bands;                  *)
(*   SpecRecon one call of Normalizer.report_energy_bands followed by one  *)
(*             call of Normalizer.reconstruct.                             *)
(***************************************************************************)
EXTENDS Integers, Sequences, FiniteSets

VARIABLES
    args,   \* the arguments of run
    pc,     \* the position of the call of run
    nl,     \* the locals of do_full_normalization
    loc,    \* the locals of run
    bound,  \* the names of the locals of run that are bound
    ret,    \* how run ended
    hist,   \* the calls received by the collaborators, in order
    sp,     \* the frame of split_energy_bands
    rc      \* the frame of report_energy_bands / reconstruct

vars == <<args, pc, nl, loc, bound, ret, hist, sp, rc>>

(***************************************************************************)
(* Bounds of the model.                                                    *)
(***************************************************************************)
MaxDim == 2     \* input images have 1..MaxDim pixels along each axis
NPix == 2       \* pixels in the sample of a lung mask's values
MaskNeg == 1    \* a mask value is at least -MaskNeg
MaskMax == 1    \* a mask value is at most MaskMax

(***************************************************************************)
(* Program constants.                                                      *)
(***************************************************************************)
TargetWidth == 2048
SquareSizes == {256, 512, 1024}

(***************************************************************************)
(* Values.  An image is its kind (which computation produced its           *)
(* intensities), the type of its elements, its shape, the geometric        *)
(* operations applied on the way to it, and, for a mask, the values of its *)
(* pixels.                                                                 *)
(***************************************************************************)
MaskVals == (0 - MaskNeg)..MaskMax
MaskPx == [1..NPix -> MaskVals]
InShapes == (1..MaxDim) \X (1..MaxDim)

MkImage(kind, dtype, shape, geom, px) ==
    [kind |-> kind, dtype |-> dtype, shape |-> shape, geom |-> geom, px |-> px]

NoImage == MkImage("none", "none", <<0, 0>>, <<>>, <<>>)

RECURSIVE MaxOf(_)
MaxOf(s) ==
    IF Len(s) = 1 THEN s[1]
    ELSE LET m == MaxOf(Tail(s)) IN IF s[1] > m THEN s[1] ELSE m

RECURSIVE MinOf(_)
MinOf(s) ==
    IF Len(s) = 1 THEN s[1]
    ELSE LET m == MinOf(Tail(s)) IN IF s[1] < m THEN s[1] ELSE m

\* band[mask > 0]: the pixels a mask array selects
MaskRegion(px) == {i \in DOMAIN px : px[i] > 0}

(***************************************************************************)
(* The helpers of opencxr.utils and the segmentation collaborator, by      *)
(* their contracts.                                                        *)
(***************************************************************************)
\* crop_img_borders: the shapes a border crop of an image may leave
BorderCropShapes(shape) ==
    {shape}
      \cup (IF shape[1] > 1 THEN {<<shape[1] - 1, shape[2]>>} ELSE {})
      \cup (IF shape[2] > 1 THEN {<<shape[1], shape[2] - 1>>} ELSE {})

crop_img_borders(img, shape) ==
    <<MkImage(img.kind, img.dtype, shape, Append(img.geom, "border_crop"), img.px),
      <<"border_crop">>>>

\* resize_preserve_aspect_ratio(img, spacing, 2048, 0)
ResizedShape(shape, width) ==
    LET other == (2 * shape[2] * width + shape[1]) \div (2 * shape[1]) IN
    <<width, IF other < 1 THEN 1 ELSE other>>

resize_preserve_aspect_ratio(img, spacing, width) ==
    <<MkImage(img.kind, img.dtype, ResizedShape(img.shape, width),
              Append(img.geom, "resize_2048"), img.px),
      Append(spacing, "resize_2048"),
      <<"resize_2048">>>>

\* lung_seg_algorithm.run: a mask of the shape of its input
lung_seg_run(img, px) == MkImage("mask", "seg", img.shape, img.geom, px)

\* rescale_to_min_max(mask, new_min=0, new_max=1)
Binarize(px) == [i \in DOMAIN px |-> IF px[i] > 0 THEN 1 ELSE 0]

rescale_to_min_max(img) ==
    MkImage(img.kind, img.dtype, img.shape, img.geom, Binarize(img.px))

\* crop_to_mask: the shapes a crop to the lung box may leave
LungCropShapes(shape) ==
    {shape, <<(shape[1] + 1) \div 2, shape[2]>>, <<shape[1], (shape[2] + 1) \div 2>>}

crop_to_mask(img, shape) ==
    <<MkImage(img.kind, img.dtype, shape, Append(img.geom, "lung_crop"), img.px),
      <<"lung_crop">>>>

\* resize_long_edge_and_pad_to_square
resize_long_edge_and_pad_to_square(img, spacing, size) ==
    <<MkImage(img.kind, img.dtype, <<size, size>>, Append(img.geom, "square_pad"),
              img.px),
      Append(spacing, "square_pad"),
      <<"square_pad">>>>

(***************************************************************************)
(* Normalizer.do_full_normalization and CXRStandardizationAlgorithm.run    *)
(***************************************************************************)
\* np.max(lung_seg_mask) == 0
IsEmptyMask_min(mask) == MinOf(mask.px) = 0
IsEmptyMask(mask) == MaxOf(mask.px) = 0

\* return lung_seg_mask, new_spacing, size_changes
EarlyReturn_norm70(f) == <<f.norm_70, f.new_spacing, f.size_changes>>
EarlyReturn(f) == <<f.lung_seg_mask, f.new_spacing, f.size_changes>>

\* the image get_norm_lung_mask computes: its statistics are taken over the
\* pixels the mask selects, and are NaN when it selects none
get_norm_lung_mask(img_np_norm70, lung_mask_np) ==
    MkImage(IF MaskRegion(lung_mask_np.px) = {} THEN "final_norm_nan" ELSE "final_norm",
            "float64", img_np_norm70.shape, img_np_norm70.geom, <<>>)

\* np.clip(img, 0, 4095).astype(np.uint16)
ClipToUint16(img) == MkImage(img.kind, "uint16", img.shape, img.geom, img.px)

\* size_changes_in_norm + size_changes_lung_crop + size_changes_square_pad
JoinSizeChanges_swapped(in_norm, lung_crop, square_pad) == in_norm \o square_pad \o lung_crop
JoinSizeChanges(in_norm, lung_crop, square_pad) == in_norm \o lung_crop \o square_pad

\* return final_lung_cropped_resized, newest_spacing, size_changes_final
ReturnValue_uncropped(l) == <<l.norm_img_np, l.newest_spacing, l.size_changes_final>>
ReturnValue(l) == <<l.final_lung_cropped_resized, l.newest_spacing, l.size_changes_final>>

NoFrame ==
    [norm_70 |-> NoImage, readable_img |-> NoImage, new_spacing |-> <<>>,
     size_changes |-> <<>>, lung_seg_mask |-> NoImage]

NoLocals ==
    [norm_img_np |-> NoImage, new_spacing |-> <<>>, size_changes_in_norm |-> <<>>,
     lung_mask_np |-> NoImage, lung_cropped_np |-> NoImage,
     size_changes_lung_crop |-> <<>>, final_lung_cropped_resized |-> NoImage,
     newest_spacing |-> <<>>, size_changes_square_pad |-> <<>>,
     size_changes_final |-> <<>>]

NoHist == [seg |-> <<>>, stage2 |-> <<>>, applied |-> <<>>]
NoRet == [status |-> "none", error |-> "", value |-> <<>>]
NoSplit == [pc |-> "off"]
NoRecon == [pc |-> "off"]

InitRun ==
    /\ args \in [image_np : {MkImage("raw", "input", s, <<>>, <<>>) : s \in InShapes},
                 spacing : {<<>>},
                 do_crop_to_lung_box : BOOLEAN,
                 final_square_size : SquareSizes]
    /\ pc = "stage1"
    /\ nl = NoFrame
    /\ loc = NoLocals
    /\ bound = {}
    /\ ret = NoRet
    /\ hist = NoHist

Init == InitRun /\ sp = NoSplit /\ rc = NoRecon

\* get_norm_central_70: border crop, resize to width 2048, stage-1
\* normalization, readable image.  The intensities of norm_70 are computed by
\* split_energy_bands, report_energy_bands and reconstruct, which SpecSplit
\* and SpecRecon model; here an image carries the name of that computation.
GetNormCentral70 ==
    /\ pc = "stage1"
    /\ \E shape \in BorderCropShapes(args.image_np.shape) :
         LET img_np == MkImage("raw", "float64", args.image_np.shape, <<>>, <<>>)
             cropped == crop_img_borders(img_np, shape)
             resized == resize_preserve_aspect_ratio(cropped[1], args.spacing, TargetWidth)
             img == resized[1]
         IN /\ nl' = [nl EXCEPT
                        !.norm_70 = MkImage("norm70", "float64", img.shape, img.geom, <<>>),
                        !.readable_img = MkImage("readable", "uint16", img.shape, img.geom, <<>>),
                        !.new_spacing = resized[2],
                        !.size_changes = cropped[2] \o resized[3]]
            /\ hist' = [hist EXCEPT !.applied = @ \o <<"border_crop", "resize_2048">>]
    /\ pc' = "segment"
    /\ UNCHANGED <<args, loc, bound, ret, sp, rc>>

\* lung_seg_mask = lung_seg_algorithm.run(readable_img)
SegmentReadable ==
    /\ pc = "segment"
    /\ \E px \in MaskPx :
         nl' = [nl EXCEPT !.lung_seg_mask = lung_seg_run(nl.readable_img, px)]
    /\ hist' = [hist EXCEPT !.seg = Append(@, nl.readable_img)]
    /\ pc' = "guard"
    /\ UNCHANGED <<args, loc, bound, ret, sp, rc>>

\* run binds the three values do_full_normalization returns
BindNorm(result) ==
    /\ loc' = [loc EXCEPT !.norm_img_np = result[1],
                          !.new_spacing = result[2],
                          !.size_changes_in_norm = result[3]]
    /\ bound' = bound \cup {"norm_img_np", "new_spacing", "size_changes_in_norm"}
    /\ pc' = "branch"

\* the lung seg mask is completely empty: return it
EmptyMaskReturn ==
    /\ pc = "guard"
    /\ IsEmptyMask(nl.lung_seg_mask)
    /\ BindNorm(EarlyReturn(nl))
    /\ UNCHANGED <<args, nl, ret, hist, sp, rc>>

\* norm step 2 using the lung segmentation image
Stage2 ==
    /\ pc = "guard"
    /\ ~IsEmptyMask(nl.lung_seg_mask)
    /\ hist' = [hist EXCEPT !.stage2 = Append(@, <<nl.norm_70, nl.lung_seg_mask>>)]
    /\ BindNorm(<<get_norm_lung_mask(nl.norm_70, nl.lung_seg_mask),
                  nl.new_spacing, nl.size_changes>>)
    /\ UNCHANGED <<args, nl, ret, sp, rc>>

\* if do_crop_to_lung_box: segment lungs on the normalized image, make the
\* mask binary
SegmentNormalized ==
    /\ pc = "branch"
    /\ args.do_crop_to_lung_box
    /\ \E px \in MaskPx :
         loc' = [loc EXCEPT !.lung_mask_np =
                               rescale_to_min_max(lung_seg_run(loc.norm_img_np, px))]
    /\ bound' = bound \cup {"lung_mask_np"}
    /\ hist' = [hist EXCEPT !.seg = Append(@, loc.norm_img_np)]
    /\ pc' = "crop"
    /\ UNCHANGED <<args, nl, ret, sp, rc>>

\* crop to the mask with margin
CropToMask ==
    /\ pc = "crop"
    /\ \E shape \in LungCropShapes(loc.norm_img_np.shape) :
         LET cropped == crop_to_mask(loc.norm_img_np, shape) IN
         loc' = [loc EXCEPT !.lung_cropped_np = cropped[1],
                            !.size_changes_lung_crop = cropped[2]]
    /\ bound' = bound \cup {"lung_cropped_np", "size_changes_lung_crop"}
    /\ hist' = [hist EXCEPT !.applied = Append(@, "lung_crop")]
    /\ pc' = "pad"
    /\ UNCHANGED <<args, nl, ret, sp, rc>>

\* do_crop_to_lung_box is false: the if statement is skipped
SkipCrop ==
    /\ pc = "branch"
    /\ ~args.do_crop_to_lung_box
    /\ pc' = "pad"
    /\ UNCHANGED <<args, nl, loc, bound, ret, hist, sp, rc>>

Raise(error) ==
    /\ ret' = [status |-> "raised", error |-> error, value |-> <<>>]
    /\ pc' = "done"

\* resize to the final size and pad to a square, clip, join the size
\* changes, return
ResizeAndPad ==
    /\ pc = "pad"
    /\ "lung_cropped_np" \in bound
    /\ LET padded == resize_long_edge_and_pad_to_square(
                         loc.lung_cropped_np, loc.new_spacing, args.final_square_size)
       IN /\ loc' = [loc EXCEPT !.final_lung_cropped_resized = ClipToUint16(padded[1]),
                                !.newest_spacing = padded[2],
                                !.size_changes_square_pad = padded[3]]
          /\ bound' = bound \cup {"final_lung_cropped_resized", "newest_spacing",
                                  "size_changes_square_pad"}
    /\ hist' = [hist EXCEPT !.applied = Append(@, "square_pad")]
    /\ pc' = "join"
    /\ UNCHANGED <<args, nl, ret, sp, rc>>

\* the argument lung_cropped_np of the call is a local that was never bound
PadUnbound ==
    /\ pc = "pad"
    /\ "lung_cropped_np" \notin bound
    /\ Raise("NameError")
    /\ UNCHANGED <<args, nl, loc, bound, hist, sp, rc>>

JoinAndReturn ==
    /\ pc = "join"
    /\ IF "size_changes_lung_crop" \in bound
       THEN LET l == [loc EXCEPT !.size_changes_final =
                          JoinSizeChanges(loc.size_changes_in_norm,
                                          loc.size_changes_lung_crop,
                                          loc.size_changes_square_pad)]
            IN /\ loc' = l
               /\ bound' = bound \cup {"size_changes_final"}
               /\ ret' = [status |-> "returned", error |-> "", value |-> ReturnValue(l)]
               /\ pc' = "done"
       ELSE /\ Raise("NameError")
            /\ UNCHANGED <<loc, bound>>
    /\ UNCHANGED <<args, nl, hist, sp, rc>>

\* an error of a helper or of the collaborator propagates unchanged
HelperRaises ==
    /\ \/ pc \in {"stage1", "segment", "crop"}
       \/ pc = "branch" /\ args.do_crop_to_lung_box
       \/ pc = "pad" /\ "lung_cropped_np" \in bound
    /\ Raise("HelperError")
    /\ UNCHANGED <<args, nl, loc, bound, hist, sp, rc>>

Next ==
    \/ GetNormCentral70
    \/ SegmentReadable
    \/ EmptyMaskReturn
    \/ Stage2
    \/ SegmentNormalized
    \/ CropToMask
    \/ SkipCrop
    \/ ResizeAndPad
    \/ PadUnbound
    \/ JoinAndReturn
    \/ HelperRaises

Spec == Init /\ [][Next]_vars

(***************************************************************************)
(* Properties of run and do_full_normalization, checked under Spec.        *)
(***************************************************************************)
Stage1Records == <<"border_crop", "resize_2048">>

Returned == ret.status = "returned"

NormReturned == "norm_img_np" \in bound

AllZeroMask(m) == m.kind = "mask" /\ \A i \in DOMAIN m.px : m.px[i] = 0

\* C1: every list of size changes run returns holds one group per geometric
\* operation the helpers actually applied, in the order they were applied:
\* border crop, resize to 2048, lung crop (when cropping was requested),
\* resize and pad to a square.
C1_RecordsInOrder ==
    Returned =>
        /\ ret.value[3] = hist.applied
        /\ ret.value[3] = Stage1Records
                            \o (IF args.do_crop_to_lung_box THEN <<"lung_crop">> ELSE <<>>)
                            \o <<"square_pad">>

C1_Witness == Returned /\ args.do_crop_to_lung_box /\ Len(ret.value[3]) = 4

\* C2: called with do_crop_to_lung_box false, run completes (no helper
\* having failed) and returns a result with no lung-crop record.
C2_NoCropReturns ==
    (pc = "done" /\ ~args.do_crop_to_lung_box /\ ret.error # "HelperError") =>
        /\ Returned
        /\ \A i \in DOMAIN ret.value[3] : ret.value[3][i] # "lung_crop"

\* C3 as stated: when the stage-1 mask is all zero, what run returns is that
\* mask, with exactly the stage-1 records.
C3_ReturnsMaskAsIs ==
    (Returned /\ AllZeroMask(nl.lung_seg_mask)) =>
        /\ ret.value[1] = nl.lung_seg_mask
        /\ ret.value[3] = Stage1Records

\* C3 as amended: when the stage-1 mask is all zero, do_full_normalization
\* returns that mask with the stage-1 spacing and exactly the stage-1
\* records, stage 2 not having run; run goes on with it, and what run returns
\* is the mask cropped and padded to the final square, with the stage-1
\* records followed by the lung-crop and the square-pad records.
C3_MaskGoesOnToCropAndPad ==
    /\ (NormReturned /\ AllZeroMask(nl.lung_seg_mask)) =>
          /\ loc.norm_img_np = nl.lung_seg_mask
          /\ loc.new_spacing = nl.new_spacing
          /\ loc.size_changes_in_norm = Stage1Records
          /\ hist.stage2 = <<>>
    /\ (Returned /\ AllZeroMask(nl.lung_seg_mask)) =>
          /\ ret.value[1].kind = "mask"
          /\ ret.value[1].px = nl.lung_seg_mask.px
          /\ ret.value[1].geom = Stage1Records \o <<"lung_crop", "square_pad">>
          /\ ret.value[3] = Stage1Records \o <<"lung_crop", "square_pad">>

C3_Witness == Returned /\ AllZeroMask(nl.lung_seg_mask)

\* C4: stage 1 comes first, then exactly one segmentation call, on the
\* readable stage-1 image; then, when the maximum of the mask is 0, the mask
\* is returned with the stage-1 spacing and records and stage 2 does not
\* run, and otherwise stage 2 runs once, on the norm70 image and that mask.
\* Stage 2 never runs before the segmentation nor on a mask of maximum 0.
C4_StageOrder ==
    /\ Len(hist.stage2) <= 1
    /\ hist.seg # <<>> =>
          /\ nl.readable_img.kind = "readable"
          /\ hist.seg[1] = nl.readable_img
    /\ hist.stage2 # <<>> =>
          /\ hist.seg # <<>>
          /\ hist.stage2[1] = <<nl.norm_70, nl.lung_seg_mask>>
          /\ nl.norm_70.kind = "norm70"
          /\ MaxOf(nl.lung_seg_mask.px) # 0
    /\ NormReturned =>
          /\ Len(hist.seg) = 1 + (IF "lung_mask_np" \in bound THEN 1 ELSE 0)
          /\ loc.new_spacing = nl.new_spacing
          /\ loc.size_changes_in_norm = nl.size_changes
          /\ IF MaxOf(nl.lung_seg_mask.px) = 0
             THEN hist.stage2 = <<>> /\ loc.norm_img_np = nl.lung_seg_mask
             ELSE Len(hist.stage2) = 1 /\ loc.norm_img_np.kind # "mask"

C4_Witness ==
    /\ pc = "branch"
    /\ Len(hist.stage2) = 1
    /\ MinOf(nl.lung_seg_mask.px) <= 0
    /\ MaxOf(nl.lung_seg_mask.px) > 0

\* C5: every image run returns has shape (final_square_size,
\* final_square_size), also when the segmentation found no lungs.
C5_SquareShape ==
    Returned =>
        ret.value[1].shape = <<args.final_square_size, args.final_square_size>>

C5_Witness ==
    /\ Returned
    /\ IsEmptyMask(nl.lung_seg_mask)
    /\ nl.lung_seg_mask.shape[1] # nl.lung_seg_mask.shape[2]

\* C10: whenever stage 2 is entered, the mask it is given selects at least
\* one pixel (some value > 0).
C10_Stage2MaskSelects ==
    hist.stage2 # <<>> => MaskRegion(hist.stage2[1][2].px) # {}

(***************************************************************************)
(* Normalizer.split_energy_bands.  An image is the sequence of its pixels  *)
(* (the function works elementwise); the Gaussian filter may return any    *)
(* image of the same shape.                                                *)
(***************************************************************************)
SplitPix == 2       \* pixels of an image given to split_energy_bands
SplitMaxVal == 1    \* a pixel of such an image is in 0..SplitMaxVal
MaxSigmas == 2      \* the sigma sequence holds at most MaxSigmas values

SplitImages == [1..SplitPix -> 0..SplitMaxVal]

\* the first k of the sigmas 1, 2, 4, 8, 16, ...
SigmasOf(k) == [i \in 1..k |-> 2 ^ (i - 1)]

\* np.zeros(shape)
Zeros(n) == [i \in 1..n |-> 0]

\* curr_I_x - curr_L_x
ImgSub(a, b) == [i \in DOMAIN a |-> a[i] - b[i]]

\* bands[::-1]
ReverseBands_kept(bands) == bands
ReverseBands(bands) == [i \in 1..Len(bands) |-> bands[Len(bands) + 1 - i]]

\* one pass of the loop over the sigmas, curr_L_x being the filtered image;
\* sigma_ind counts from 0 and bands[sigma_ind] is the band at sigma_ind + 1
LoopBody_noCarry(f, curr_L_x) ==
    LET ind == f.sigma_ind
        b1 == [f.bands EXCEPT ![ind + 1] = ImgSub(f.curr_I_x, curr_L_x)]
        b2 == IF ind = Len(f.sigmas) - 1 THEN [b1 EXCEPT ![ind + 2] = curr_L_x] ELSE b1
    IN [f EXCEPT !.bands = b2,
                 !.sigma_ind = ind + 1,
                 !.smoothed = Append(@, curr_L_x)]
LoopBody(f, curr_L_x) ==
    LET ind == f.sigma_ind
        b1 == [f.bands EXCEPT ![ind + 1] = ImgSub(f.curr_I_x, curr_L_x)]
        b2 == IF ind = Len(f.sigmas) - 1 THEN [b1 EXCEPT ![ind + 2] = curr_L_x] ELSE b1
    IN [f EXCEPT !.bands = b2,
                 !.curr_I_x = curr_L_x,
                 !.sigma_ind = ind + 1,
                 !.smoothed = Append(@, curr_L_x)]

InitSplit ==
    /\ \E image \in SplitImages, k \in 0..MaxSigmas :
         sp = [pc |-> "call", image |-> image, sigmas |-> SigmasOf(k),
               bands |-> <<>>, curr_I_x |-> image, sigma_ind |-> 0,
               smoothed |-> <<>>, result |-> <<>>]
    /\ args = <<>> /\ pc = "off" /\ nl = NoFrame /\ loc = NoLocals /\ bound = {}
    /\ ret = NoRet /\ hist = NoHist /\ rc = NoRecon

\* bands = np.zeros((len(sigmas) + 1,) + image.shape); curr_I_x = image
SplitEnter ==
    /\ sp.pc = "call"
    /\ sp' = [sp EXCEPT !.pc = "loop",
                        !.bands = [j \in 1..(Len(sp.sigmas) + 1) |-> Zeros(Len(sp.image))],
                        !.curr_I_x = sp.image]
    /\ UNCHANGED <<args, pc, nl, loc, bound, ret, hist, rc>>

\* for sigma_ind, sigma in enumerate(sigmas)
SplitIterate ==
    /\ sp.pc = "loop"
    /\ sp.sigma_ind < Len(sp.sigmas)
    /\ \E curr_L_x \in SplitImages : sp' = LoopBody(sp, curr_L_x)
    /\ UNCHANGED <<args, pc, nl, loc, bound, ret, hist, rc>>

\* return bands[::-1]
SplitReturn ==
    /\ sp.pc = "loop"
    /\ sp.sigma_ind = Len(sp.sigmas)
    /\ sp' = [sp EXCEPT !.pc = "done", !.result = ReverseBands(sp.bands)]
    /\ UNCHANGED <<args, pc, nl, loc, bound, ret, hist, rc>>

NextSplit == SplitEnter \/ SplitIterate \/ SplitReturn

SpecSplit == InitSplit /\ [][NextSplit]_vars

(***************************************************************************)
(* Properties of split_energy_bands, checked under SpecSplit.              *)
(***************************************************************************)
RECURSIVE SumBands(_, _)
SumBands(bands, n) ==
    IF bands = <<>> THEN Zeros(n)
    ELSE LET rest == SumBands(Tail(bands), n) IN
         [i \in 1..n |-> bands[1][i] + rest[i]]

SplitDone == sp.pc = "done"

\* C6: for a non-empty sigma sequence, the elementwise sum of the bands
\* split_energy_bands returns is the image it was given, whatever images the
\* filter returned.
C6_BandsSumToImage ==
    (SplitDone /\ Len(sp.sigmas) >= 1) =>
        SumBands(sp.result, Len(sp.image)) = sp.image

C6_Witness ==
    /\ SplitDone
    /\ Len(sp.sigmas) >= 2
    /\ \E i \in 1..Len(sp.smoothed) : sp.smoothed[i] # sp.image
    /\ sp.smoothed[1] # sp.smoothed[2]

\* the image the smoothing step number j (from 1) was applied to
StepInput(j) == IF j = 1 THEN sp.image ELSE sp.smoothed[j - 1]

Abs(x) == IF x < 0 THEN 0 - x ELSE x

RECURSIVE Gcd(_, _)
Gcd(a, b) == IF b = 0 THEN a ELSE Gcd(b, a % b)

Rat(n, d) ==
    LET sgn == IF d < 0 THEN 0 - 1 ELSE 1
        g == Gcd(Abs(n), Abs(d))
    IN [k |-> "fin", n |-> (sgn * n) \div g, d |-> (sgn * d) \div g]

NaN == [k |-> "nan", n |-> 0, d |-> 0]
Inf(sgn) == [k |-> "inf", n |-> sgn, d |-> 0]
Num(i) == Rat(i, 1)
Sign(x) == IF x.n < 0 THEN 0 - 1 ELSE IF x.n > 0 THEN 1 ELSE 0
IsFinite(x) == x.k = "fin"

FNeg(x) == [x EXCEPT !.n = 0 - x.n]

FAdd(x, y) ==
    IF x.k = "nan" \/ y.k = "nan" THEN NaN
    ELSE IF x.k = "inf" /\ y.k = "inf" THEN (IF x.n = y.n THEN x ELSE NaN)
    ELSE IF x.k = "inf" THEN x
    ELSE IF y.k = "inf" THEN y
    ELSE Rat(x.n * y.d + y.n * x.d, x.d * y.d)

FSub(x, y) == FAdd(x, FNeg(y))

FMul(x, y) ==
    IF x.k = "nan" \/ y.k = "nan" THEN NaN
    ELSE IF x.k = "inf" \/ y.k = "inf"
         THEN (IF Sign(x) * Sign(y) = 0 THEN NaN ELSE Inf(Sign(x) * Sign(y)))
    ELSE Rat(x.n * y.n, x.d * y.d)

FDiv(x, y) ==
    IF x.k = "nan" \/ y.k = "nan" THEN NaN
    ELSE IF x.k = "inf" THEN (IF y.k = "inf" THEN NaN
                              ELSE Inf(IF Sign(y) < 0 THEN 0 - x.n ELSE x.n))
    ELSE IF y.k = "inf" THEN Num(0)
    ELSE IF y.n = 0 THEN (IF x.n = 0 THEN NaN ELSE Inf(Sign(x)))
    ELSE Rat(x.n * y.d, x.d * y.n)

RECURSIVE ISqrtFrom(_, _)
ISqrtFrom(x, r) == IF (r + 1) * (r + 1) > x THEN r ELSE ISqrtFrom(x, r + 1)
ISqrt(x) == ISqrtFrom(x, 0)

StdScale == 8   \* an irrational square root is rounded down to a multiple of 1/StdScale

\* np.sqrt of a finite value >= 0: exact when the root is a fraction, and
\* otherwise rounded (never to zero: n * d >= 1 there)
FSqrt(x) ==
    LET m == x.n * x.d
        r == ISqrt(m)
    IN IF r * r = m THEN Rat(r, x.d)
       ELSE Rat(ISqrt(m * StdScale * StdScale), x.d * StdScale)

RECURSIVE FSum(_)
FSum(s) == IF s = <<>> THEN Num(0) ELSE FAdd(s[1], FSum(Tail(s)))

(***************************************************************************)
(* Normalizer.report_energy_bands and Normalizer.reconstruct.  A band      *)
(* image of shape (h, w) is the sequence of its h * w pixels, row by row.  *)
(***************************************************************************)
ReconMaxVal == 1    \* a pixel of a band given to report_energy_bands is in 0..ReconMaxVal
ReconSigmas == 1    \* the band stack holds ReconSigmas + 1 bands

ReconShapes == {<<1, 2>>, <<2, 3>>}

\* the values of a mask array given to report_energy_bands
ReconMaskVals == {0 - 1, 0, 1}

\* the images of a shape whose columns alternate between two values
Stripes(shape, vals) ==
    {[i \in 1..(shape[1] * shape[2]) |-> v[(((i - 1) % shape[2]) % 2) + 1]] :
        v \in [1..2 -> vals]}

\* the coefficient vectors: the first is always 1
CoefVals == {Num(1), Rat(1, 2)}
CoefVectors(n) ==
    {[j \in 1..n |-> IF j = 1 THEN Num(1) ELSE c] : c \in CoefVals \ {Num(1)}}
      \cup {[j \in 1..n |-> IF j = 1 THEN Num(1) ELSE Rat(1, j + 1)]}

\* the list of the values a sequence holds at the indices of a region, in order
RECURSIVE Select(_, _, _)
Select(band, region, i) ==
    IF i > Len(band) THEN <<>>
    ELSE (IF i \in region THEN <<band[i]>> ELSE <<>>) \o Select(band, region, i + 1)

\* int(0.15 * n) and int(0.85 * n)
Lo15(n) == (15 * n) \div 100
Hi85(n) == (85 * n) \div 100

\* band[int(0.15*shape[0]):int(0.85*shape[0]), int(0.15*shape[1]):int(0.85*shape[1])]
CentralBox(shape) ==
    {i \in 1..(shape[1] * shape[2]) :
        LET r == (i - 1) \div shape[2]
            c == (i - 1) % shape[2]
        IN /\ Lo15(shape[1]) <= r /\ r < Hi85(shape[1])
           /\ Lo15(shape[2]) <= c /\ c < Hi85(shape[2])}

\* values.mean(): NaN for no value
Mean(values) ==
    IF values = <<>> THEN NaN ELSE FDiv(FSum(values), Num(Len(values)))

\* values.std(): NaN for no value
Std(values) ==
    IF values = <<>> THEN NaN
    ELSE LET m == Mean(values)
             sq == [i \in 1..Len(values) |-> FMul(FSub(values[i], m), FSub(values[i], m))]
         IN FSqrt(Mean(sq))

\* the region of interest: the pixels where mask > 0 when the mask is an
\* array, the central 70% of the image otherwise
Region(shape, mask) ==
    IF mask.array THEN MaskRegion(mask.px) ELSE CentralBox(shape)

report_energy_bands(bands, shape, mask) ==
    LET region == Region(shape, mask) IN
    <<[j \in 1..Len(bands) |-> Mean(Select(bands[j], region, 1))],
      [j \in 1..Len(bands) |-> Std(Select(bands[j], region, 1))]>>

\* bands[0] = (bands[0] - means[0]) / stdevs[0]
\* bands[j] = bands[j] * coefficients[j] / stdevs[j], for j >= 1
\* (the bands as the two assignments leave them)
RescaleBands_allMeans(bands, means, stdevs, coefficients) ==
    [j \in 1..Len(bands) |->
        [p \in 1..Len(bands[j]) |->
            FDiv(FMul(FSub(bands[j][p], means[j]), coefficients[j]), stdevs[j])]]
RescaleBands(bands, means, stdevs, coefficients) ==
    [j \in 1..Len(bands) |->
        [p \in 1..Len(bands[j]) |->
            IF j = 1 THEN FDiv(FSub(bands[1][p], means[1]), stdevs[1])
            ELSE FDiv(FMul(bands[j][p], coefficients[j]), stdevs[j])]]

\* bands.sum(0)
SumOverBands(bands) ==
    [p \in 1..Len(bands[1]) |-> FSum([j \in 1..Len(bands) |-> bands[j][p]])]

reconstruct(bands, means, stdevs, coefficients) ==
    SumOverBands(RescaleBands(bands, means, stdevs, coefficients))

ToFloat(img) == [i \in 1..Len(img) |-> Num(img[i])]

InitRecon ==
    /\ \E shape \in ReconShapes :
         \E bands \in [1..(ReconSigmas + 1) -> Stripes(shape, 0..ReconMaxVal)],
            mask \in [array : {TRUE}, px : Stripes(shape, ReconMaskVals)]
                        \cup {[array |-> FALSE, px |-> <<>>]},
            coefficients \in CoefVectors(ReconSigmas + 1) :
           rc = [pc |-> "call", shape |-> shape,
                 bands_in |-> [j \in 1..Len(bands) |-> ToFloat(bands[j])],
                 bands |-> [j \in 1..Len(bands) |-> ToFloat(bands[j])],
                 mask |-> mask, coefficients |-> coefficients,
                 means |-> <<>>, stdevs |-> <<>>, result |-> <<>>,
                 status |-> "none"]
    /\ args = <<>> /\ pc = "off" /\ nl = NoFrame /\ loc = NoLocals /\ bound = {}
    /\ ret = NoRet /\ hist = NoHist /\ sp = NoSplit

\* means, stdevs = cls.report_energy_bands(bands, mask)
ReportEnergyBands ==
    /\ rc.pc = "call"
    /\ LET r == report_energy_bands(rc.bands, rc.shape, rc.mask) IN
       rc' = [rc EXCEPT !.pc = "reported", !.means = r[1], !.stdevs = r[2]]
    /\ UNCHANGED <<args, pc, nl, loc, bound, ret, hist, sp>>

\* cls.reconstruct(bands, means, stdevs, coefficients): the bands are
\* rescaled in place and their sum is returned
Reconstruct ==
    /\ rc.pc = "reported"
    /\ rc' = [rc EXCEPT
                !.pc = "done",
                !.bands = RescaleBands(rc.bands, rc.means, rc.stdevs, rc.coefficients),
                !.result = reconstruct(rc.bands, rc.means, rc.stdevs, rc.coefficients),
                !.status = "returned"]
    /\ UNCHANGED <<args, pc, nl, loc, bound, ret, hist, sp>>

NextRecon == ReportEnergyBands \/ Reconstruct

SpecRecon == InitRecon /\ [][NextRecon]_vars

(***************************************************************************)
(* Properties of report_energy_bands and reconstruct, checked under        *)
(* SpecRecon.                                                              *)
(***************************************************************************)
AllFinite(values) == \A i \in DOMAIN values : IsFinite(values[i])

\* the degenerate regions: a mask array that selects no pixel, or a band
\* whose standard deviation over the region is zero
DegenerateRegion ==
    \/ rc.mask.array /\ MaskRegion(rc.mask.px) = {}
    \/ \E j \in DOMAIN rc.stdevs : rc.stdevs[j] = Num(0)

\* C7: with a degenerate region, report_energy_bands / reconstruct end with
\* an error: they do not return (a result holding NaN or Inf values).
C7_DegenerateRegionRaises ==
    (rc.pc = "done" /\ DegenerateRegion) => rc.status = "raised"

\* the sum over the bands j..n of band_j * coefficient[j] / stdev[j] at pixel p
RECURSIVE ScaledTail(_, _)
ScaledTail(p, j) ==
    IF j > Len(rc.bands_in) THEN Num(0)
    ELSE FAdd(FDiv(FMul(rc.bands_in[j][p], rc.coefficients[j]), rc.stdevs[j]),
              ScaledTail(p, j + 1))

OtherCoefficients == {Num(0), Rat(5, 3)}
OtherMeans == {Rat(0 - 7, 3), NaN}

\* C9: reconstruct returns (band0 - mean0) / stdev0 plus the sum over j >= 1
\* of band_j * coefficient[j] / stdev[j]; a call that differs only in
\* coefficient[0], or only in a mean after the first, returns the same image.
C9_ReconstructFormula ==
    rc.pc = "done" =>
        /\ \A p \in 1..Len(rc.bands_in[1]) :
              rc.result[p] =
                  FAdd(FDiv(FSub(rc.bands_in[1][p], rc.means[1]), rc.stdevs[1]),
                       ScaledTail(p, 2))
        /\ \A c \in OtherCoefficients :
              reconstruct(rc.bands_in, rc.means, rc.stdevs,
                          [rc.coefficients EXCEPT ![1] = c]) = rc.result
        /\ \A j \in 2..Len(rc.bands_in) : \A m \in OtherMeans :
              reconstruct(rc.bands_in, [rc.means EXCEPT ![j] = m], rc.stdevs,
                          rc.coefficients) = rc.result

C9_Witness ==
    /\ rc.pc = "done"
    /\ rc.mask.array
    /\ AllFinite(rc.result)
    /\ rc.means[2] # Num(0)
    /\ rc.coefficients[2] # Num(1)
    /\ \E p, q \in 1..Len(rc.result) : rc.result[p] # rc.result[q]

====
